---- MODULE Spec2Model ----
(***************************************************************************)
(* The dual-mode authentication gate of the backend                        *)
(* (backend/app/core/security.py) and the protected endpoint that depends  *)
(* on it (backend/app/api/routes/alerts.py).                               *)
(*                                                                         *)
(* One worker handles one request at a time: verify_api_key contains no    *)
(* await and verify_jwt fetches the key set with the blocking requests.get,*)
(* so the gate of a request runs to completion (or blocks inside the       *)
(* fetch) before anything else of that worker runs.                        *)
(*                                                                         *)
(* The environment is the identity provider (its published key set and     *)
(* how it answers a fetch) and the clock.  Both are read only inside       *)
(* verify_jwt, so their changes are modelled while no verification result  *)
(* is pending delivery.                                                    *)
(***************************************************************************)
EXTENDS Integers, Sequences, FiniteSets, TLC

\* ------------------------------------------------------------------ bounds
MaxKeys == 2      \* longest key set the identity provider publishes
MaxNow  == 2      \* last instant of the clock

\* ----------------------------------------------------- configuration (settings)
API_KEY_SECRET   == "dev-secret-key-change-in-production"
AUTH0_DOMAIN     == "tenant.example"
AUTH0_AUDIENCE   == "my-api"
AUTH0_ALGORITHMS == {"RS256"}
Issuer           == "https://tenant.example/"

HTTP_401_UNAUTHORIZED == 401
DefaultEmail          == "joshini.mn@gmail.com"

\* ------------------------------------------------------------ value domains
NoToken   == [wellFormed |-> FALSE, present |-> FALSE]
NoHeader  == "<absent>"
NoKid     == "<no-kid>"

Kids      == {"abc", "def", "zzz"}
Materials == {"K1", "K2"}
SigningKey == [kid : Kids, mat : Materials]

RECURSIVE SeqsUpTo(_, _)
SeqsUpTo(S, n) ==
    IF n = 0 THEN {<<>>}
    ELSE LET shorter == SeqsUpTo(S, n - 1)
         IN  shorter \cup {Append(s, x) : s \in {t \in shorter : Len(t) = n - 1}, x \in S}

\* the claim set of a token
Claims == [sub : {"auth0|user1"},
           exp : {1, MaxNow + 1},
           aud : {{"my-api", "userinfo"}, {"other-api"}},
           iss : {"https://tenant.example/", "https://evil.example/"}]

\* a bearer credential: either not a JWT at all, or a header (alg, kid),
\* a claim set and the key material that produced the signature
MalformedToken == [wellFormed |-> FALSE, present |-> TRUE]
JwtTokens == [wellFormed : {TRUE}, present : {TRUE},
              kid : Kids \cup {NoKid}, alg : {"RS256", "HS256"},
              sig : Materials, claims : Claims]
BearerTokens == JwtTokens \cup {MalformedToken}

ApiKeyHeaders == {NoHeader, "", API_KEY_SECRET, "wrong-key"}

Requests == [token : BearerTokens \cup {NoToken}, api_key_header : ApiKeyHeaders]
NoRequest == [token |-> NoToken, api_key_header |-> NoHeader]

\* ------------------------------------------------------ exceptions, results
AuthHeaders == "WWW-Authenticate: Bearer"
NoPayload   == [none |-> TRUE]

HTTPException(status, detail) ==
    [type |-> "HTTPException", status |-> status, detail |-> detail, headers |-> AuthHeaders]
Exc(type, msg) ==
    [type |-> type, status |-> 0, detail |-> msg, headers |-> ""]
NoExc == Exc("<none>", "")

Return(payload) == [kind |-> "return", payload |-> payload, exc |-> NoExc]
Raise(e)        == [kind |-> "raise", payload |-> NoPayload, exc |-> e]
Pending         == [kind |-> "pending", payload |-> NoPayload, exc |-> NoExc]

\* jose.exceptions: JWTError, ExpiredSignatureError, JWTClaimsError derive from JOSEError
IsJOSEError(e) ==
    e.type \in {"JOSEError", "JWTError", "ExpiredSignatureError", "JWTClaimsError"}

\* ---------------------------------------------------------------- variables
VARIABLES
    remoteKeys,   \* key set the identity provider publishes now
    now,          \* the clock
    phase,        \* position of the request in flight
    request,      \* the request in flight
    jwks,         \* what the fetch of verify_jwt produced for this request
    outcome,      \* what verify_api_key returned or raised for this request
    response,     \* HTTP status sent for this request (0: none yet)
    printed,      \* the sender create_alert printed for this request
    earlier,      \* history: one completed invocation of the gate, kept for comparison
    between       \* history: kinds of outcome of the invocations completed since then

vars == <<remoteKeys, now, phase, request, jwks, outcome, response, printed, earlier, between>>

\* no invocation kept yet
NoInvocation == [kept |-> FALSE, request |-> NoRequest,
                 jwks |-> [err |-> "<not fetched>", keys |-> <<>>],
                 at |-> 0, outcome |-> Pending]

NothingPrinted == "<nothing>"
AlertEmails    == {"", "analyst@corp.example"}

KidsOf(keys) == {keys[i].kid : i \in 1 .. Len(keys)}

TypeOK ==
    /\ remoteKeys \in SeqsUpTo(SigningKey, MaxKeys)
    /\ Cardinality(KidsOf(remoteKeys)) = Len(remoteKeys)
    /\ now \in 1 .. MaxNow
    /\ phase \in {"idle", "gate", "blocked", "gated", "done"}
    /\ request \in Requests
    /\ outcome.kind \in {"pending", "return", "raise"}
    /\ response \in {0, 200, 500, HTTP_401_UNAUTHORIZED}
    /\ printed \in {NothingPrinted, DefaultEmail} \cup AlertEmails
    /\ earlier.kept \in BOOLEAN
    /\ between \subseteq {"return", "raise"}

\* ------------------------------------------------- verify_jwt, step by step

\* requests.get(jwks_url) and .json(): what the identity provider answers.
\* "unreachable" raises inside requests.get, "garbage" is a body that is not
\* JSON or has no "keys" member, "silent" never answers (get has no timeout).
FetchModes == {"ok", "unreachable", "garbage", "silent"}

\* the key set the identity provider publishes when the service starts
InitialKeys == <<[kid |-> "abc", mat |-> "K1"]>>

\* a verifier that keeps the key set it saw first instead of fetching
FetchJwksCached(mode, published) ==
    CASE mode = "ok"          -> [err |-> "<none>", keys |-> InitialKeys]
      [] mode = "unreachable" -> [err |-> "RequestException", keys |-> <<>>]
      [] mode = "garbage"     -> [err |-> "ValueError", keys |-> <<>>]

FetchJwks(mode, published) ==
    CASE mode = "ok"          -> [err |-> "<none>", keys |-> published]
      [] mode = "unreachable" -> [err |-> "RequestException", keys |-> <<>>]
      [] mode = "garbage"     -> [err |-> "ValueError", keys |-> <<>>]
NoJwks == [err |-> "<not fetched>", keys |-> <<>>]

\* a scan that looks at the last key only
FindKeyLastOnly(keys, kid, i) ==
    IF Len(keys) > 0 /\ keys[Len(keys)].kid = kid THEN Len(keys) ELSE 0

\* the for loop over jwks["keys"]: index of the first key whose kid equals
\* the token's kid, 0 when there is none (rsa_key stays {})
RECURSIVE FindKey(_, _, _)
FindKey(keys, kid, i) ==
    IF i > Len(keys) THEN 0
    ELSE IF keys[i].kid = kid THEN i
    ELSE FindKey(keys, kid, i + 1)

\* jose: signature check of jwt.decode, restricted to the algorithms passed in
SignatureVerifies(tok, key, algorithms) ==
    tok.alg \in algorithms /\ tok.sig = key.mat
IsExpired(tok, t)          == tok.claims.exp < t
AudienceMatches(tok, aud)  == aud \in tok.claims.aud
IssuerMatches(tok, iss)    == tok.claims.iss = iss

\* a decode called without audience and issuer
JwtDecodeNoClaimsCheck(tok, key, algorithms, audience, issuer, t) ==
    IF ~SignatureVerifies(tok, key, algorithms)
    THEN Raise(Exc("JWTError", "Signature verification failed."))
    ELSE IF IsExpired(tok, t) THEN Raise(Exc("ExpiredSignatureError", "Signature has expired."))
    ELSE Return(tok.claims)

\* jwt.decode(token, rsa_key, algorithms, audience, issuer): the payload, or
\* the jose exception of the first check that fails (signature, then exp,
\* then aud/iss)
JwtDecode(tok, key, algorithms, audience, issuer, t) ==
    IF ~SignatureVerifies(tok, key, algorithms) THEN Raise(Exc("JWTError", "Signature verification failed."))
    ELSE IF IsExpired(tok, t) THEN Raise(Exc("ExpiredSignatureError", "Signature has expired."))
    ELSE IF ~(AudienceMatches(tok, audience) /\ IssuerMatches(tok, issuer))
         THEN Raise(Exc("JWTClaimsError", "Invalid claims"))
    ELSE Return(tok.claims)

\* the handlers of the inner try around jwt.decode
DecodeHandlers(r) ==
    IF r.kind = "return" THEN r
    ELSE IF r.exc.type = "ExpiredSignatureError"
         THEN Raise(HTTPException(HTTP_401_UNAUTHORIZED, "Token is expired"))
    ELSE IF r.exc.type = "JWTClaimsError"
         THEN Raise(HTTPException(HTTP_401_UNAUTHORIZED,
                                  "Incorrect claims, check audience and issuer."))
    ELSE Raise(HTTPException(HTTP_401_UNAUTHORIZED, "Unable to parse authentication token"))

\* the body of the outer try of verify_jwt, after the fetch
VerifyJwtBody(tok, fetched, t) ==
    IF fetched.err # "<none>" THEN Raise(Exc(fetched.err, ""))
    ELSE IF ~tok.wellFormed THEN Raise(Exc("JWTError", "Error decoding token headers."))
    ELSE IF Len(fetched.keys) > 0 /\ tok.kid = NoKid THEN Raise(Exc("KeyError", "kid"))
    ELSE LET i == FindKey(fetched.keys, tok.kid, 1)
         IN  IF i # 0
             THEN DecodeHandlers(JwtDecode(tok, fetched.keys[i], AUTH0_ALGORITHMS,
                                           AUTH0_AUDIENCE, Issuer, t))
             ELSE Raise(HTTPException(HTTP_401_UNAUTHORIZED, "Unable to find appropriate key"))

\* the handlers of the outer try: "except JOSEError" then "except Exception",
\* which is also the handler of an HTTPException raised inside the try
OuterHandlers(r) ==
    IF r.kind = "return" THEN r
    ELSE IF IsJOSEError(r.exc)
         THEN Raise(HTTPException(HTTP_401_UNAUTHORIZED,
                                  "Could not validate credentials: " \o r.exc.detail))
    ELSE Raise(HTTPException(HTTP_401_UNAUTHORIZED, "Authentication failed"))

verify_jwt(tok, fetched, t) == OuterHandlers(VerifyJwtBody(tok, fetched, t))

\* ------------------------------------------------------------ verify_api_key
SyntheticPrincipalUser == [sub |-> "internal_extension", scope |-> "user"]
SyntheticPrincipal == [sub |-> "internal_extension", scope |-> "admin"]

\* a check of presence only
ApiKeyPresent(header) ==
    header # NoHeader /\ header # ""

ApiKeyValid(header) ==
    header # NoHeader /\ header # "" /\ header = API_KEY_SECRET

\* the final rejection raised as 403
NoValidAuthForbidden ==
    Raise([type |-> "HTTPException", status |-> 403,
           detail |-> "Missing or invalid authentication credentials", headers |-> ""])

NoValidAuth ==
    Raise(HTTPException(HTTP_401_UNAUTHORIZED, "Missing or invalid authentication credentials"))

ApiKeyPath(header) ==
    IF ApiKeyValid(header) THEN Return(SyntheticPrincipal) ELSE NoValidAuth

\* a gate that tries the API key whenever the token did not verify
TokenPathFallsBack(r, header) ==
    IF r.kind = "return" THEN r ELSE ApiKeyPath(header)

\* what the try around verify_jwt does with its result: return the payload,
\* re-raise an HTTPException, swallow anything else and fall through
TokenPath(r, header) ==
    IF r.kind = "return" THEN r
    ELSE IF r.exc.type = "HTTPException" THEN r
    ELSE ApiKeyPath(header)

\* a gate that remembers that a caller was let through and lets the next ones through
verify_api_key_Sticky(req, fetched, t) ==
    IF "return" \in between THEN Return(SyntheticPrincipal)
    ELSE IF req.token.present
    THEN TokenPath(verify_jwt(req.token, fetched, t), req.api_key_header)
    ELSE ApiKeyPath(req.api_key_header)

verify_api_key(req, fetched, t) ==
    IF req.token.present
    THEN TokenPath(verify_jwt(req.token, fetched, t), req.api_key_header)
    ELSE ApiKeyPath(req.api_key_header)

\* ------------------------------------------------ the protected endpoint
\* an endpoint declared without the dependency
DependencyIgnored(o) == TRUE

\* Depends(verify_api_key): the endpoint body runs once the dependency has
\* returned a value
DependencyResolved(o) == o.kind = "return"

\* the framework's rendering of an exception that left the dependency
RenderStatus(o) ==
    IF o.exc.type = "HTTPException" THEN o.exc.status ELSE 500

\* ------------------------------------------------------------------- Init
Init ==
    /\ remoteKeys = InitialKeys
    /\ now = 1
    /\ phase = "idle"
    /\ request = NoRequest
    /\ jwks = NoJwks
    /\ outcome = Pending
    /\ response = 0
    /\ printed = NothingPrinted
    /\ earlier = NoInvocation
    /\ between = {}

\* ------------------------------------------------------------ environment
EnvMayMove == phase \in {"idle", "gate"}

\* the identity provider publishes a key under a kid it does not use yet
PublishKey ==
    /\ EnvMayMove
    /\ Len(remoteKeys) < MaxKeys
    /\ \E k \in SigningKey :
          /\ k.kid \notin KidsOf(remoteKeys)
          /\ remoteKeys' = Append(remoteKeys, k)
    /\ UNCHANGED <<now, phase, request, jwks, outcome, response, printed, earlier, between>>

\* the identity provider rotates a key out
RetireKey ==
    /\ EnvMayMove
    /\ \E i \in 1 .. Len(remoteKeys) :
          remoteKeys' = SubSeq(remoteKeys, 1, i - 1) \o SubSeq(remoteKeys, i + 1, Len(remoteKeys))
    /\ UNCHANGED <<now, phase, request, jwks, outcome, response, printed, earlier, between>>

Tick ==
    /\ EnvMayMove
    /\ now < MaxNow
    /\ now' = now + 1
    /\ UNCHANGED <<remoteKeys, phase, request, jwks, outcome, response, printed, earlier, between>>

\* the response has been sent: the worker is free for the next request
Complete ==
    /\ phase = "done"
    /\ phase' = "idle"
    /\ request' = NoRequest
    /\ jwks' = NoJwks
    /\ outcome' = Pending
    /\ response' = 0
    /\ printed' = NothingPrinted
    /\ UNCHANGED <<remoteKeys, now, earlier, between>>

\* a request reaches the endpoint
Arrive ==
    /\ phase = "idle"
    /\ \E req \in Requests : request' = req
    /\ phase' = "gate"
    /\ jwks' = NoJwks
    /\ outcome' = Pending
    /\ response' = 0
    /\ printed' = NothingPrinted
    /\ UNCHANGED <<remoteKeys, now, earlier, between>>

\* ------------------------------------------------------------------ the gate
\* verify_api_key on a request with a bearer token; the provider answers the fetch
GateWithToken ==
    /\ phase = "gate"
    /\ request.token.present
    /\ \E mode \in FetchModes \ {"silent"} :
          /\ jwks' = FetchJwks(mode, remoteKeys)
          /\ outcome' = verify_api_key(request, jwks', now)
    /\ phase' = "gated"
    /\ UNCHANGED <<remoteKeys, now, request, response, printed, earlier, between>>

\* verify_api_key on a request with a bearer token; the provider never answers
\* and requests.get, called without a timeout, does not return
GateBlocked ==
    /\ phase = "gate"
    /\ request.token.present
    /\ phase' = "blocked"
    /\ UNCHANGED <<remoteKeys, now, request, jwks, outcome, response, printed, earlier, between>>

\* verify_api_key on a request without a bearer token
GateNoToken ==
    /\ phase = "gate"
    /\ ~request.token.present
    /\ outcome' = verify_api_key(request, NoJwks, now)
    /\ phase' = "gated"
    /\ UNCHANGED <<remoteKeys, now, request, jwks, response, printed, earlier, between>>

\* the gate raised: the framework answers with the exception's status
RejectRequest ==
    /\ phase = "gated"
    /\ outcome.kind = "raise"
    /\ response' = RenderStatus(outcome)
    /\ phase' = "done"
    /\ UNCHANGED <<remoteKeys, now, request, jwks, outcome, printed, earlier, between>>

\* the body of create_alert
create_alert ==
    /\ phase = "gated"
    /\ DependencyResolved(outcome)
    /\ \E user_email \in AlertEmails :
          printed' = IF user_email = "" THEN DefaultEmail ELSE user_email
    /\ response' = 200
    /\ phase' = "done"
    /\ UNCHANGED <<remoteKeys, now, request, jwks, outcome, earlier, between>>

Next ==
    \/ PublishKey
    \/ RetireKey
    \/ Tick
    \/ Arrive
    \/ GateWithToken
    \/ GateBlocked
    \/ GateNoToken
    \/ RejectRequest
    \/ create_alert
    \/ Complete

Spec == Init /\ [][Next]_vars

\* ------------------------------------------- the same request, twice
\* A second specification that keeps one completed invocation (its inputs and
\* its outcome) and lets further requests through the gate afterwards, so that
\* a later invocation on the same inputs can be compared with it.  Requests
\* are drawn from a sample of each kind and the identity provider only retires
\* and republishes its initial key.

GoodClaims == [sub |-> "auth0|user1", exp |-> MaxNow + 1,
               aud |-> {"my-api", "userinfo"}, iss |-> "https://tenant.example/"]
GoodToken  == [wellFormed |-> TRUE, present |-> TRUE, kid |-> "abc", alg |-> "RS256",
               sig |-> "K1", claims |-> GoodClaims]
ShortLivedToken == [GoodToken EXCEPT !.claims.exp = 1]
ForgedToken     == [GoodToken EXCEPT !.sig = "K2"]

ProbeRequests ==
    {[token |-> GoodToken,       api_key_header |-> NoHeader],
     [token |-> GoodToken,       api_key_header |-> "wrong-key"],
     [token |-> ShortLivedToken, api_key_header |-> API_KEY_SECRET],
     [token |-> ForgedToken,     api_key_header |-> API_KEY_SECRET],
     [token |-> MalformedToken,  api_key_header |-> NoHeader],
     [token |-> NoToken,         api_key_header |-> API_KEY_SECRET],
     [token |-> NoToken,         api_key_header |-> "wrong-key"],
     [token |-> NoToken,         api_key_header |-> NoHeader]}

\* the identity provider publishes its initial key again after retiring it
RepublishKey ==
    /\ EnvMayMove
    /\ remoteKeys = <<>>
    /\ remoteKeys' = InitialKeys
    /\ UNCHANGED <<now, phase, request, jwks, outcome, response, printed, earlier, between>>

ArriveProbe ==
    /\ phase = "idle"
    /\ \E req \in ProbeRequests : request' = req
    /\ phase' = "gate"
    /\ jwks' = NoJwks
    /\ outcome' = Pending
    /\ response' = 0
    /\ printed' = NothingPrinted
    /\ UNCHANGED <<remoteKeys, now, earlier, between>>

\* the response has been sent; this invocation is the one kept for comparison
CompleteKept ==
    /\ phase = "done"
    /\ ~earlier.kept
    /\ earlier' = [kept |-> TRUE, request |-> request, jwks |-> jwks,
                   at |-> now, outcome |-> outcome]
    /\ between' = {}
    /\ phase' = "idle"
    /\ request' = NoRequest
    /\ jwks' = NoJwks
    /\ outcome' = Pending
    /\ response' = 0
    /\ printed' = NothingPrinted
    /\ UNCHANGED <<remoteKeys, now>>

\* the response has been sent; the invocation is one of the others
CompleteOther ==
    /\ phase = "done"
    /\ between' = IF earlier.kept THEN between \cup {outcome.kind} ELSE between
    /\ phase' = "idle"
    /\ request' = NoRequest
    /\ jwks' = NoJwks
    /\ outcome' = Pending
    /\ response' = 0
    /\ printed' = NothingPrinted
    /\ UNCHANGED <<remoteKeys, now, earlier>>

NextTwice ==
    \/ RepublishKey
    \/ RetireKey
    \/ Tick
    \/ ArriveProbe
    \/ GateWithToken
    \/ GateBlocked
    \/ GateNoToken
    \/ RejectRequest
    \/ create_alert
    \/ CompleteKept
    \/ CompleteOther

SpecTwice == Init /\ [][NextTwice]_vars

\* ====================================================================
\* Properties
\* ====================================================================
Verified == phase \in {"gated", "done"}
Tok      == request.token

\* every check of the token passes against the fetched key set at time t
ValidUnder(tok, fetched, t) ==
    /\ tok.wellFormed
    /\ fetched.err = "<none>"
    /\ \E i \in 1 .. Len(fetched.keys) :
          /\ fetched.keys[i].kid = tok.kid
          /\ SignatureVerifies(tok, fetched.keys[i], AUTH0_ALGORITHMS)
    /\ ~IsExpired(tok, t)
    /\ AudienceMatches(tok, AUTH0_AUDIENCE)
    /\ IssuerMatches(tok, Issuer)

\* C1: when a bearer token is present the gate's outcome is verify_jwt's
\* outcome on that token whatever the X-API-Key header holds: a token that
\* fails any step is rejected even with the correct API key, and an accepted
\* token yields its own claims, not the synthetic API-key principal.
C1_TokenCommitsRequest ==
    (Verified /\ Tok.present) =>
        /\ outcome = verify_jwt(Tok, jwks, now)
        /\ ~ValidUnder(Tok, jwks, now) => outcome.kind = "raise"
        /\ outcome.kind = "return" =>
              /\ outcome.payload = Tok.claims
              /\ outcome.payload # [sub |-> "internal_extension", scope |-> "admin"]

C1_Witness ==
    /\ Verified
    /\ Tok.present
    /\ request.api_key_header = API_KEY_SECRET
    /\ outcome.kind = "raise"

\* C2: verify_jwt returns a principal only if the token's kid is the kid of a
\* fetched key, its signature verifies under that key with an allowed
\* algorithm, it is not expired and its audience and issuer match.
C2_AcceptedOnlyIfAllChecksPass ==
    (Verified /\ Tok.present /\ outcome.kind = "return") => ValidUnder(Tok, jwks, now)

C2_Witness ==
    /\ Verified
    /\ Tok.present
    /\ outcome.kind = "return"
    /\ Len(jwks.keys) = 2
    /\ jwks.keys[2].kid = Tok.kid

C4_CorrectApiKeyAccepted ==
    (Verified /\ ~Tok.present /\ request.api_key_header = API_KEY_SECRET) =>
        /\ outcome = Return([sub |-> "internal_extension", scope |-> "admin"])
        /\ phase = "gated" => ENABLED create_alert
        /\ phase = "done" => response = 200

C4_Witness ==
    /\ phase = "done"
    /\ ~Tok.present
    /\ request.api_key_header = API_KEY_SECRET
    /\ response = 200

\* C5 (as claimed): a failure detected inside verify_jwt reaches the caller
\* with the detail of the step that failed: expired -> "Token is expired",
\* audience/issuer mismatch -> "Incorrect claims, check audience and issuer.",
\* unknown kid -> "Unable to find appropriate key".
C5_FailureSurfacedVerbatim ==
    (Verified /\ Tok.present /\ Tok.wellFormed /\ jwks.err = "<none>" /\ Tok.kid # NoKid) =>
        LET matching == {i \in 1 .. Len(jwks.keys) : jwks.keys[i].kid = Tok.kid}
            signed   == \E i \in matching : SignatureVerifies(Tok, jwks.keys[i], AUTH0_ALGORITHMS)
            claimsOk == AudienceMatches(Tok, AUTH0_AUDIENCE) /\ IssuerMatches(Tok, Issuer)
        IN  /\ matching = {} =>
                  outcome = Raise(HTTPException(401, "Unable to find appropriate key"))
            /\ (signed /\ IsExpired(Tok, now)) =>
                  outcome = Raise(HTTPException(401, "Token is expired"))
            /\ (signed /\ ~IsExpired(Tok, now) /\ ~claimsOk) =>
                  outcome = Raise(HTTPException(401, "Incorrect claims, check audience and issuer."))

C8_NoCredentialsRefused403 ==
    (phase = "done" /\ ~Tok.present /\ request.api_key_header = NoHeader) => response = 403

\* C9: the body of create_alert runs for a request only after the gate has
\* returned a principal for it; for a rejected request nothing is printed
\* and no success response is sent.
C9_BodyOnlyAfterPrincipal ==
    /\ (printed # NothingPrinted \/ response = 200) => (phase = "done" /\ outcome.kind = "return")
    /\ outcome.kind # "return" => (printed = NothingPrinted /\ response # 200)

C9_Witness ==
    /\ phase = "done"
    /\ outcome.kind = "return"
    /\ printed = DefaultEmail
    /\ response = 200

\* C10: a verification accepts a token only if the token's kid is in the key
\* set the identity provider publishes at the time of that verification.
C10_AcceptedOnlyWithPublishedKid ==
    [][(phase = "gate" /\ phase' = "gated" /\ Tok.present /\ outcome'.kind = "return")
          => (Tok.wellFormed /\ Tok.kid \in KidsOf(remoteKeys))]_vars

\* a token signed with the initially published key, rejected by a
\* verification made after that key was retired
C10_Witness ==
    /\ phase = "gated"
    /\ Tok.present
    /\ Tok.wellFormed
    /\ Tok.kid \in KidsOf(InitialKeys)
    /\ \E i \in 1 .. Len(InitialKeys) :
          /\ InitialKeys[i].kid = Tok.kid
          /\ SignatureVerifies(Tok, InitialKeys[i], AUTH0_ALGORITHMS)
    /\ ~IsExpired(Tok, now)
    /\ AudienceMatches(Tok, AUTH0_AUDIENCE)
    /\ IssuerMatches(Tok, Issuer)
    /\ jwks.err = "<none>"
    /\ jwks.keys = remoteKeys
    /\ Tok.kid \notin KidsOf(remoteKeys)
    /\ outcome.kind = "raise"

C12_WaitingInvocationCanFinish ==
    (Tok.present /\ phase \in {"gate", "blocked"}) =>
        ENABLED (GateWithToken \/ RejectRequest \/ create_alert)

====
